---------------------------- MODULE Spec2Model ----------------------------
(***************************************************************************)
(* A model of src/yo.py: calculate_average, assign_letter_grade and main.  *)
(*                                                                         *)
(* Numbers.  The scores are Python ints; `total / len(grades)` is true     *)
(* division and yields a float.  A quotient is modelled as the exact       *)
(* rational [num, den] in lowest terms with den > 0.  For the magnitudes   *)
(* of the model (|total| < 2^53, len <= 4) the float quotient is the       *)
(* correctly rounded rational, rounding is monotonic and the thresholds    *)
(* 60, 70, 80, 90 are floats, so every comparison of the float against a   *)
(* threshold has the outcome of the comparison of the rational.            *)
(***************************************************************************)
EXTENDS Integers, Sequences, FiniteSets

VARIABLES
    students,   \* main's local dict, as the sequence of its items in insertion order
    it,         \* how many items the iterator of line 26 has handed out
    pc,         \* the position of the run
    k,          \* calculate_average: how many elements `for g in grades` has consumed
    total,      \* calculate_average: its local total
    avg,        \* main's local avg (assign_letter_grade's parameter score)
    letter,     \* main's local letter
    out,        \* standard output: the lines printed so far
    fault       \* the unhandled exception that ended the run, or "none"

vars == <<students, it, pc, k, total, avg, letter, out, fault>>

-----------------------------------------------------------------------------
(* Bounds of the model.                                                    *)

MaxStudents == 3    \* a roster holds at most this many students
MaxLen == 3         \* a score sequence given to calculate_average alone
MaxDen == 3         \* denominators of the scores given to assign_letter_grade alone
MaxScore == 110     \* those scores reach from -MaxNeg to MaxScore
MaxNeg == 5

-----------------------------------------------------------------------------
(* Rationals.                                                              *)

Abs(n) == IF n < 0 THEN 0 - n ELSE n

RECURSIVE GCD(_, _)
GCD(a, b) == IF b = 0 THEN a ELSE GCD(b, a % b)

\* n / d, d > 0, in lowest terms.
Norm(n, d) ==
    LET g == GCD(Abs(n), d)
    IN  [num |-> n \div g, den |-> d \div g]

\* Python 2's `/` on ints (floor division): what line 5 would do without true division.
Div_floor(n, d) == [num |-> n \div d, den |-> 1]

\* Python's `total / len(grades)` for a nonzero divisor.
Div(n, d) == Norm(n, d)

\* score > t, for a rational score and an integer t.
Gt(score, t) == score.num > t * score.den

\* A local that has not been assigned yet.
Unset == [num |-> 0, den |-> 0]

-----------------------------------------------------------------------------
(* assign_letter_grade, lines 7-17.                                        *)

\* score >= t.
Ge(score, t) == score.num >= t * score.den

\* The classifier with inclusive thresholds (>= for >).
assign_letter_grade_ge(score) ==
    IF Ge(score, 90) THEN "A"
    ELSE IF Ge(score, 80) THEN "B"
    ELSE IF Ge(score, 70) THEN "C"
    ELSE IF Ge(score, 60) THEN "D"
    ELSE "F"

assign_letter_grade(score) ==
    IF Gt(score, 90) THEN "A"
    ELSE IF Gt(score, 80) THEN "B"
    ELSE IF Gt(score, 70) THEN "C"
    ELSE IF Gt(score, 60) THEN "D"
    ELSE "F"

-----------------------------------------------------------------------------
(* The inputs.                                                             *)

Names == {"Alice", "Bob", "Charlie", "Dave"}

\* The score sequences of main's rosters: the three of lines 21-23 and a
\* one-element sequence whose average is a threshold.
ScoreLists == {<<95, 85, 100>>, <<70, 65, 60>>, <<>>, <<90>>}

Entries == {[name |-> n, grades |-> g] : n \in Names, g \in ScoreLists}

\* A dict has one item per key.
Rosters ==
    UNION {{r \in [1..n -> Entries] :
                \A a, b \in 1..n : a # b => r[a].name # r[b].name}
           : n \in 0..MaxStudents}

\* The dict literal of lines 20-24.
HardCodedRoster ==
    << [name |-> "Alice", grades |-> <<95, 85, 100>>],
       [name |-> "Bob", grades |-> <<70, 65, 60>>],
       [name |-> "Charlie", grades |-> <<>>] >>

Scores == {0, 60, 65, 70, 85, 95, 100}

SeqsUpTo(S, n) == UNION {[1..m -> S] : m \in 0..n}

ScoreInputs ==
    {Norm(n, d) : n \in (0 - MaxNeg * MaxDen)..(MaxScore * MaxDen), d \in 1..MaxDen}

-----------------------------------------------------------------------------
(* main, lines 19-31, with calculate_average, lines 1-5, inlined at its    *)
(* call.                                                                   *)

\* The list calculate_average was called with: the dict's own list object.
grades == students[it].grades

\* The text of line 29, by its three varying parts.
Line(student, a, l) == [name |-> student, average |-> a, grade |-> l]

Locals0 ==
    /\ it = 0
    /\ k = 0
    /\ total = 0
    /\ avg = Unset
    /\ letter = ""
    /\ out = <<>>
    /\ fault = "none"

\* Line 33 calls main; lines 20-24 build the roster.
Init ==
    /\ students \in Rosters
    /\ pc = "main_for"
    /\ Locals0

\* Line 26 hands out the next item and line 27 calls calculate_average, whose
\* line 2 sets total.
ForNext ==
    /\ pc = "main_for"
    /\ it < Len(students)
    /\ it' = it + 1
    /\ total' = 0
    /\ k' = 0
    /\ pc' = "avg_for"
    /\ UNCHANGED <<students, avg, letter, out, fault>>

\* Line 26: the items are exhausted; control goes to line 31.
ForEnd ==
    /\ pc = "main_for"
    /\ it = Len(students)
    /\ pc' = "summary"
    /\ UNCHANGED <<students, it, k, total, avg, letter, out, fault>>

\* `for g in grades[1:]`: the first element is never added.
AvgAdd_skipfirst ==
    /\ pc = "avg_for"
    /\ k < Len(grades)
    /\ total' = IF k = 0 THEN total ELSE total + grades[k + 1]
    /\ k' = k + 1
    /\ UNCHANGED <<students, it, pc, avg, letter, out, fault>>

\* `total += grades.pop(0)`: the sum is taken by consuming the caller's list.
AvgAdd_pop ==
    /\ pc = "avg_for"
    /\ k < Len(grades)
    /\ total' = total + grades[1]
    /\ students' = [students EXCEPT ![it].grades = Tail(@)]
    /\ UNCHANGED <<it, k, pc, avg, letter, out, fault>>

\* Lines 3-4: one iteration of the loop.
AvgAdd ==
    /\ pc = "avg_for"
    /\ k < Len(grades)
    /\ total' = total + grades[k + 1]
    /\ k' = k + 1
    /\ UNCHANGED <<students, it, pc, avg, letter, out, fault>>

\* Line 5 with a nonzero len(grades); line 27 assigns the result to avg.
AvgReturn ==
    /\ pc = "avg_for"
    /\ k = Len(grades)
    /\ Len(grades) # 0
    /\ avg' = Div(total, Len(grades))
    /\ pc' = "letter"
    /\ UNCHANGED <<students, it, k, total, letter, out, fault>>

\* An empty list yields the sentinel 0 instead of raising.
AvgFault_sentinel ==
    /\ pc = "avg_for"
    /\ k = Len(grades)
    /\ Len(grades) = 0
    /\ avg' = [num |-> 0, den |-> 1]
    /\ pc' = "letter"
    /\ UNCHANGED <<students, it, k, total, letter, out, fault>>

\* main catches the exception and goes on with the next student.
AvgFault_isolated ==
    /\ pc = "avg_for"
    /\ k = Len(grades)
    /\ Len(grades) = 0
    /\ pc' = "main_for"
    /\ UNCHANGED <<students, it, k, total, avg, letter, out, fault>>

\* Line 5 with len(grades) = 0: ZeroDivisionError.  Nothing catches it, so it
\* leaves calculate_average, main and the module.
AvgFault ==
    /\ pc = "avg_for"
    /\ k = Len(grades)
    /\ Len(grades) = 0
    /\ pc' = "faulted"
    /\ fault' = "ZeroDivisionError"
    /\ UNCHANGED <<students, it, k, total, avg, letter, out>>

\* Line 28.
AssignLetter ==
    /\ pc = "letter"
    /\ letter' = assign_letter_grade(avg)
    /\ pc' = "print"
    /\ UNCHANGED <<students, it, k, total, avg, out, fault>>

\* The line is written before the earlier ones.
PrintLine_prepend ==
    /\ pc = "print"
    /\ out' = <<Line(students[it].name, avg, letter)>> \o out
    /\ pc' = "main_for"
    /\ UNCHANGED <<students, it, k, total, avg, letter, fault>>

\* Line 29.
PrintLine ==
    /\ pc = "print"
    /\ out' = Append(out, Line(students[it].name, avg, letter))
    /\ pc' = "main_for"
    /\ UNCHANGED <<students, it, k, total, avg, letter, fault>>

\* print_student_summary is defined and returns; main returns.
Summary_defined ==
    /\ pc = "summary"
    /\ pc' = "done"
    /\ UNCHANGED <<students, it, k, total, avg, letter, out, fault>>

\* Line 31: the name print_student_summary is bound nowhere in the module and
\* is no builtin, so evaluating it raises NameError, which nothing catches.
Summary ==
    /\ pc = "summary"
    /\ pc' = "faulted"
    /\ fault' = "NameError"
    /\ UNCHANGED <<students, it, k, total, avg, letter, out>>

Next ==
    \/ ForNext
    \/ ForEnd
    \/ AvgAdd
    \/ AvgReturn
    \/ AvgFault
    \/ AssignLetter
    \/ PrintLine
    \/ Summary

Spec == Init /\ [][Next]_vars

-----------------------------------------------------------------------------
(* calculate_average on every score sequence of up to MaxLen scores: main  *)
(* run on a roster of one student.                                         *)

InitAverage ==
    /\ students \in {<<[name |-> "Alice", grades |-> g]>> : g \in SeqsUpTo(Scores, MaxLen)}
    /\ pc = "main_for"
    /\ Locals0

SpecAverage == InitAverage /\ [][Next]_vars

-----------------------------------------------------------------------------
(* assign_letter_grade called on its own with a score.                     *)

InitGrade ==
    /\ students = <<>>
    /\ pc = "grade_call"
    /\ it = 0
    /\ k = 0
    /\ total = 0
    /\ avg \in ScoreInputs
    /\ letter = ""
    /\ out = <<>>
    /\ fault = "none"

\* Lines 7-17, called with score = avg.
GradeCall ==
    /\ pc = "grade_call"
    /\ letter' = assign_letter_grade(avg)
    /\ pc' = "grade_ret"
    /\ UNCHANGED <<students, it, k, total, avg, out, fault>>

NextGrade == GradeCall

SpecGrade == InitGrade /\ [][NextGrade]_vars


-----------------------------------------------------------------------------
(* What the properties are stated with.                                    *)

RECURSIVE SumOf(_)
SumOf(s) == IF s = <<>> THEN 0 ELSE Head(s) + SumOf(Tail(s))

\* a is the sum of s divided by the number of its elements.
IsMean(a, s) == a.den > 0 /\ a.num * Len(s) = SumOf(s) * a.den

Letters == {"A", "B", "C", "D", "F"}

AliceEntry == [name |-> "Alice", grades |-> <<95, 85, 100>>]
BobEntry == [name |-> "Bob", grades |-> <<70, 65, 60>>]
AliceLine == [name |-> "Alice", average |-> [num |-> 280, den |-> 3], grade |-> "A"]
BobLine == [name |-> "Bob", average |-> [num |-> 65, den |-> 1], grade |-> "D"]

\* The students whose line 29 has run.
Processed ==
    IF pc \in {"avg_for", "letter", "print"} \/ fault = "ZeroDivisionError"
    THEN it - 1
    ELSE it

AllNonEmpty == \A i \in 1..Len(students) : students[i].grades # <<>>

Terminated == pc \in {"done", "faulted"}

-----------------------------------------------------------------------------
(* C1: for every score, assign_letter_grade returns exactly one of A, B,   *)
(* C, D, F: A when score > 90, B when 80 < score <= 90, C when             *)
(* 70 < score <= 80, D when 60 < score <= 70, F when score <= 60; so 90,   *)
(* 80, 70, 60 and 0 give B, C, D, F and F.                                 *)
C1_Thresholds ==
    pc = "grade_ret" =>
        LET n == avg.num
            d == avg.den
        IN  /\ letter \in Letters
            /\ letter = "A" <=> n > 90 * d
            /\ letter = "B" <=> (80 * d < n /\ n <= 90 * d)
            /\ letter = "C" <=> (70 * d < n /\ n <= 80 * d)
            /\ letter = "D" <=> (60 * d < n /\ n <= 70 * d)
            /\ letter = "F" <=> n <= 60 * d
            /\ avg = [num |-> 90, den |-> 1] => letter = "B"
            /\ avg = [num |-> 80, den |-> 1] => letter = "C"
            /\ avg = [num |-> 70, den |-> 1] => letter = "D"
            /\ avg = [num |-> 60, den |-> 1] => letter = "F"
            /\ avg = [num |-> 0, den |-> 1] => letter = "F"

C1_Witness == pc = "grade_ret" /\ avg = [num |-> 90, den |-> 1] /\ letter = "B"

(* C2: for every non-empty score sequence, calculate_average returns (it   *)
(* does not fault) and what it returns is the sum of all the scores        *)
(* divided by their number.                                                *)
C2_Mean ==
    (it >= 1 /\ grades # <<>>) =>
        /\ fault # "ZeroDivisionError"
        /\ pc = "avg_for" => ENABLED (AvgAdd \/ AvgReturn)
        /\ pc # "avg_for" => IsMean(avg, grades)

C2_Witness ==
    /\ pc = "letter"
    /\ grades = <<100, 60, 60>>
    /\ avg = [num |-> 220, den |-> 3]

(* C3: calculate_average called on an empty sequence ends in               *)
(* ZeroDivisionError: the call never returns, so no value of it is ever    *)
(* assigned or classified.                                                 *)
C3_EmptyFaults ==
    (it >= 1 /\ grades = <<>>) =>
        /\ pc \in {"avg_for", "faulted"}
        /\ pc = "avg_for" => (fault = "none" /\ ENABLED Next)
        /\ pc = "faulted" => fault = "ZeroDivisionError"
        /\ it = 1 => avg = Unset

C3_Witness ==
    /\ it = 1
    /\ grades = <<>>
    /\ pc = "faulted"
    /\ fault = "ZeroDivisionError"

(* C4: in every state the lines written are exactly one per processed      *)
(* student, in roster order, each with that student's name, the average    *)
(* of that student's scores and the classifier's letter for that average.  *)
C4_LinesInOrder ==
    /\ Len(out) = Processed
    /\ \A j \in 1..Len(out) :
        /\ out[j].name = students[j].name
        /\ IsMean(out[j].average, students[j].grades)
        /\ out[j].grade = assign_letter_grade(out[j].average)

C4_Witness ==
    /\ Len(out) = 3
    /\ out[1].name = "Charlie"
    /\ out[2].name = "Alice"
    /\ out[1].grade # out[2].grade

(* C5: when the average of a student faults, the run stops there: no line  *)
(* exists for that student or a later one in any state, the iterator       *)
(* never passes that student, and in the faulted state the lines of the    *)
(* students before are written and no step follows.                        *)
C5_AbortAtFault ==
    /\ \A i \in 1..Len(students) :
        students[i].grades = <<>> =>
            /\ it <= i
            /\ \A h \in i..Len(students), j \in 1..Len(out) :
                out[j].name # students[h].name
    /\ fault = "ZeroDivisionError" =>
        /\ grades = <<>>
        /\ Len(out) = it - 1
        /\ \A j \in 1..(it - 1) : out[j].name = students[j].name
        /\ ~ENABLED Next

C5_Witness ==
    /\ fault = "ZeroDivisionError"
    /\ it = 2
    /\ Len(students) = 3
    /\ Len(out) = 1

C7_Example ==
    (Len(students) >= 2 /\ students[1] = AliceEntry /\ students[2] = BobEntry) =>
        /\ Len(out) >= 1 => out[1] = AliceLine
        /\ Len(out) >= 2 => out[2] = BobLine
        /\ it >= 2 => Len(out) >= 1
        /\ (it >= 3 \/ pc \in {"summary", "faulted", "done"}) => Len(out) >= 2

C7_Witness ==
    /\ students = <<AliceEntry, BobEntry>>
    /\ out = <<AliceLine, BobLine>>

(* C8: no step of the run changes the roster.                              *)
C8_RosterFrozen == [][students' = students]_vars

C8_Witness ==
    /\ pc = "faulted"
    /\ fault = "ZeroDivisionError"
    /\ Len(out) = 2
    /\ k = 0
    /\ total = 0

(* C9: when the loop has handled every student control goes to the         *)
(* summary step, and the step from there ends the run with NameError and   *)
(* writes nothing.                                                         *)
C9_SummaryFaults ==
    [][ /\ (pc = "main_for" /\ it = Len(students)) => pc' = "summary"
        /\ pc = "summary" => (pc' = "faulted" /\ fault' = "NameError" /\ out' = out)
      ]_vars

C9_Witness ==
    /\ pc = "faulted"
    /\ fault = "NameError"
    /\ Len(out) = 2

(* C10: with the roster of lines 20-24 the output is always a prefix of    *)
(* Alice's line, Bob's line; the run never reaches the summary step nor    *)
(* a normal end; it can stop only faulted, and then it is at Charlie with  *)
(* ZeroDivisionError and both lines written.                               *)
C10_HardCoded ==
    students = HardCodedRoster =>
        /\ out \in {<<>>, <<AliceLine>>, <<AliceLine, BobLine>>}
        /\ pc \notin {"summary", "done"}
        /\ fault \in {"none", "ZeroDivisionError"}
        /\ pc # "faulted" => (fault = "none" /\ ENABLED Next)
        /\ pc = "faulted" =>
            /\ fault = "ZeroDivisionError"
            /\ it = 3
            /\ out = <<AliceLine, BobLine>>
            /\ ~ENABLED Next

C10_Witness ==
    /\ students = HardCodedRoster
    /\ pc = "faulted"
    /\ Len(out) = 2

=============================================================================
